---- MODULE Spec2Model ----
(***************************************************************************)
(* Model of the dungeon generator of kannweg_3d                            *)
(* (src/src/level_generator.rs): Level::create_dungeon and the stages it   *)
(* runs in sequence: init_map, create_rooms, add_maze, add_doors and the   *)
(* repeat-until-zero loop around remove_dead_ends.                         *)
(*                                                                         *)
(* A coordinate (x, y) is the tuple <<x, y>>; map[x][y].typ of the source  *)
(* is map[<<x, y>>] here.  The wall flags of a Field are never read or     *)
(* written by the generator and are left out.  Vectors are sequences       *)
(* (index 0 of the source is index 1 here).                                *)
(***************************************************************************)
EXTENDS Integers, Sequences, FiniteSets, TLC

\* ------------------------------------------------------------------ bounds
MaxWidth == 11
MaxHeight == 5
\* the widest map of a request whose room tile value is Empty
MaxWidthEmptyValue == 7
MaxRooms == 2
MaxAttempts == 2
\* the largest step distance get_neighbours is called with on its own
MaxDistance == 3

\* ------------------------------------------------------------ field types
Corridor == "Corridor"
Floor == "Floor"
Door == "Door"
Empty == "Empty"
FieldType == {Corridor, Floor, Door, Empty}

\* Option::None of an index or a count; a local that is not in scope holds
\* None, the empty vector, the empty set or NoOptions
None == -1

\* no panic has happened
NoPanic == "none"

\* the [min_size, max_size) ranges requests are drawn from: one with the even
\* sizes 2 and 4, one without an even number and one that is empty
SizeRanges == {<<2, 5>>, <<3, 4>>, <<4, 4>>}

RoomOptions ==
  [max_rooms : 0..MaxRooms, max_attempts : 0..MaxAttempts,
   min_size : {r[1] : r \in SizeRanges}, max_size : {r[2] : r \in SizeRanges}]

RoomOptionsInputs ==
  {o \in RoomOptions : <<o.min_size, o.max_size>> \in SizeRanges}

NoOptions == [max_rooms |-> 0, max_attempts |-> 0, min_size |-> 0, max_size |-> 0]

\* the room tile values requests are drawn from: the one the game passes and
\* Empty, the one value the stages test for (they treat Corridor and Door as
\* they treat Floor).  With Empty no placed room is visible on the map and
\* every slot adds a room list, so these requests are drawn for the narrower
\* maps only.
RoomIdentifiers == {Floor, Empty}

VARIABLES
  pc,              \* the stage create_dungeon is in
  panic_msg,       \* the panic that ended the run, NoPanic while there is none
  width, height,   \* arguments of create_dungeon
  room_options,    \* argument of create_dungeon, NoOptions once create_rooms returned
  room_identifier, \* argument of create_dungeon
  map,             \* Level.map, <<>> while not allocated
  rooms,           \* Level.rooms
  corridors,       \* Level.corridors
  room_i,          \* create_rooms: index of the room slot (outer loop)
  attempt_j,       \* create_rooms: index of the attempt (inner loop)
  attempts,        \* create_rooms: attempts made so far
  visited_cells,   \* add_maze: the visit stack
  corridor,        \* add_maze: tile list of the component being carved
  maze_corridors,  \* add_maze: the local `corridors`
  regions,         \* add_doors: the working region set
  initial_regions, \* add_doors: the working region set as it was built
  x_todo,          \* add_doors: entries of x_order not iterated yet
  y_order,         \* add_doors: the shuffled y order
  y_idx,           \* add_doors: position of the inner loop in y_order
  cur_x,           \* add_doors: the x of the outer loop, None between two x
  removed,         \* create_dungeon: result of the last remove_dead_ends
  nb_cell,         \* get_neighbours called on its own: the argument `cell`
  nb_distance,     \* get_neighbours called on its own: the argument `distance`
  nb_result        \* get_neighbours called on its own: the vector returned

vars == <<pc, panic_msg, width, height, room_options, room_identifier, map,
          rooms, corridors, room_i, attempt_j, attempts, visited_cells,
          corridor, maze_corridors, regions, initial_regions, x_todo, y_order,
          y_idx, cur_x, removed, nb_cell, nb_distance, nb_result>>

ctrl == <<pc, panic_msg>>
args == <<width, height, room_identifier>>
level == <<map, rooms, corridors>>
rooms_locals == <<room_i, attempt_j, attempts>>
maze_locals == <<visited_cells, corridor, maze_corridors>>
doors_locals == <<regions, initial_regions, x_todo, y_order, y_idx, cur_x>>
query == <<nb_cell, nb_distance, nb_result>>

\* ---------------------------------------------------------------- helpers
is_odd(n) == n % 2 = 1
is_even(n) == n % 2 = 0
min(a, b) == IF a < b THEN a ELSE b

\* x..=(x + x_extent) by y..=(y + y_extent), in the order of the nested loops
RECURSIVE RectFrom(_, _, _, _, _, _)
RectFrom(x, y, x_extent, y_extent, cx, cy) ==
  IF cx > x + x_extent THEN <<>>
  ELSE IF cy > y + y_extent THEN RectFrom(x, y, x_extent, y_extent, cx + 1, y)
  ELSE <<(<<cx, cy>>)>> \o RectFrom(x, y, x_extent, y_extent, cx, cy + 1)

RectTiles(x, y, x_extent, y_extent) == RectFrom(x, y, x_extent, y_extent, x, y)

Range(s) == {s[i] : i \in 1..Len(s)}

\* the values rng.gen_range(lower, upper) followed by the parity test can
\* come back with
gen_odd_range(lower, upper) == {x \in lower..(upper - 1) : is_odd(x)}
\* variant: the draw of gen_range without the parity test
gen_even_rangeAny(lower, upper) == lower..(upper - 1)

gen_even_range(lower, upper) == {x \in lower..(upper - 1) : is_even(x)}

\* ------------------------------------------------------------------- Init
Init ==
  /\ pc = "init_map"
  /\ panic_msg = NoPanic
  /\ width \in 0..MaxWidth
  /\ height \in 0..MaxHeight
  /\ room_options \in RoomOptionsInputs
  /\ room_identifier \in RoomIdentifiers
  /\ room_identifier = Empty => width <= MaxWidthEmptyValue
  /\ map = <<>>
  /\ rooms = <<>>
  /\ corridors = <<>>
  /\ room_i = None
  /\ attempt_j = None
  /\ attempts = None
  /\ visited_cells = <<>>
  /\ corridor = <<>>
  /\ maze_corridors = <<>>
  /\ regions = <<>>
  /\ initial_regions = <<>>
  /\ x_todo = {}
  /\ y_order = <<>>
  /\ y_idx = None
  /\ cur_x = None
  /\ removed = None
  /\ nb_cell = <<0, 0>>
  /\ nb_distance = 0
  /\ nb_result = <<>>

Panic(msg) ==
  /\ pc' = "panic"
  /\ panic_msg' = msg

\* ---------------------------------------------------------------- init_map
\* variant: the test with `&&` in place of `||`
DimensionsRejectedBoth(w, h) == is_even(w) /\ is_even(h)

\* `if width.is_even() || height.is_even()`
DimensionsRejected(w, h) == is_even(w) \/ is_even(h)

init_map ==
  /\ pc = "init_map"
  /\ IF DimensionsRejected(width, height)
       THEN /\ Panic("width and height of map must be odd!")
            /\ UNCHANGED <<map, rooms_locals>>
       ELSE /\ map' = [t \in (0..(width - 1)) \X (0..(height - 1)) |-> Empty]
            /\ pc' = "create_rooms"
            /\ panic_msg' = NoPanic
            /\ room_i' = 0
            /\ attempt_j' = 0
            /\ attempts' = 0
  /\ UNCHANGED <<args, query, room_options, rooms, corridors, maze_locals,
                 doors_locals, removed>>

\* ------------------------------------------------------------ create_rooms
\* variant: a check of the origin tile alone
RectangleFreeOriginOnly(x, y, x_extent, y_extent) == map[<<x, y>>] = Empty

\* the overlap check of an attempt: no tile of the candidate rectangle is taken
RectangleFree(x, y, x_extent, y_extent) ==
  \A x_check \in x..(x + x_extent) : \A y_check \in y..(y + y_extent) :
    map[<<x_check, y_check>>] = Empty

\* variant: a stamping that misses the far corner of the rectangle
StampRoomExclusive(m, room_tiles, typ) ==
  [t \in DOMAIN m |->
     IF t \in Range(room_tiles) /\ t # room_tiles[Len(room_tiles)]
       THEN typ ELSE m[t]]

\* the second pair of loops: every tile of the rectangle gets the room value
StampRoom(m, room_tiles, typ) ==
  [t \in DOMAIN m |-> IF t \in Range(room_tiles) THEN typ ELSE m[t]]

\* variant: a slot that goes on trying after it has placed its room
NextAttemptNoBreak(placed) ==
  /\ attempts' = attempts + 1
  /\ IF attempt_j + 1 >= room_options.max_attempts
       THEN room_i' = room_i + 1 /\ attempt_j' = 0
       ELSE room_i' = room_i /\ attempt_j' = attempt_j + 1

\* the loop counters after an attempt: a placed room or a used-up attempt
\* budget moves on to the next slot
NextAttempt(placed) ==
  /\ attempts' = attempts + 1
  /\ IF placed \/ attempt_j + 1 >= room_options.max_attempts
       THEN room_i' = room_i + 1 /\ attempt_j' = 0
       ELSE room_i' = room_i /\ attempt_j' = attempt_j + 1

\* one iteration of the 'attempts loop with the values the generators returned
PlaceRoom(x, x_gen, y, y_gen) ==
  LET x_extent == min(x_gen, width - x - 2)
      y_extent == min(y_gen, height - y - 2)
      room_tiles == RectTiles(x, y, x_extent, y_extent)
  IN  IF x_extent < 2 \/ y_extent < 2
        THEN NextAttempt(FALSE) /\ UNCHANGED <<map, rooms>>
      ELSE IF ~RectangleFree(x, y, x_extent, y_extent)
        THEN NextAttempt(FALSE) /\ UNCHANGED <<map, rooms>>
      ELSE /\ map' = StampRoom(map, room_tiles, room_identifier)
           /\ rooms' = Append(rooms, room_tiles)
           /\ NextAttempt(TRUE)

\* one attempt.  rng.gen_range(low, high) panics when low >= high, and the
\* rejection loop of gen_even_range never ends when the range holds no even
\* number; the four generators run in the order x, x_extent, y, y_extent.
create_rooms_attempt ==
  /\ pc = "create_rooms"
  /\ room_i < room_options.max_rooms
  /\ attempt_j < room_options.max_attempts
  /\ LET min_size == room_options.min_size
         max_size == room_options.max_size
     IN  IF 0 >= width - 1
           THEN Panic("gen_range: low >= high") /\ UNCHANGED <<map, rooms, rooms_locals>>
         ELSE IF min_size >= max_size
           THEN Panic("gen_range: low >= high") /\ UNCHANGED <<map, rooms, rooms_locals>>
         ELSE IF gen_even_range(min_size, max_size) = {}
           THEN /\ pc' = "hang"
                /\ UNCHANGED <<panic_msg, map, rooms, rooms_locals>>
         ELSE IF 0 >= height - 1
           THEN Panic("gen_range: low >= high") /\ UNCHANGED <<map, rooms, rooms_locals>>
         ELSE /\ UNCHANGED ctrl
              /\ \E x \in gen_odd_range(0, width - 1) :
                 \E x_gen \in gen_even_range(min_size, max_size) :
                 \E y \in gen_odd_range(0, height - 1) :
                 \E y_gen \in gen_even_range(min_size, max_size) :
                   PlaceRoom(x, x_gen, y, y_gen)
  /\ UNCHANGED <<args, query, room_options, corridors, maze_locals,
                 doors_locals, removed>>

\* both loops are over: Level { map, rooms, corridors: Vec::new() }
create_rooms_return ==
  /\ pc = "create_rooms"
  /\ room_i >= room_options.max_rooms \/ attempt_j >= room_options.max_attempts
  /\ pc' = "add_maze"
  /\ room_options' = NoOptions
  /\ room_i' = None
  /\ attempt_j' = None
  /\ attempts' = None
  /\ corridors' = <<>>
  /\ visited_cells' = <<>>
  /\ corridor' = <<>>
  /\ maze_corridors' = <<>>
  /\ UNCHANGED <<panic_msg, args, query, map, rooms, doors_locals, removed>>

\* ----------------------------------------------------------- get_neighbours
\* variant: a test that lets the first coordinate past the edge through
in_boundsInclusive(x, y) == x <= width /\ y <= height

in_bounds(x, y) == x < width /\ y < height

\* variant: a lookup without the east neighbour
get_neighboursNoEast(cell, distance) ==
  LET x == cell[1]
      y == cell[2]
  IN  (IF y >= distance THEN <<(<<x, y - distance>>)>> ELSE <<>>)
      \o (IF in_bounds(x, y + distance) THEN <<(<<x, y + distance>>)>> ELSE <<>>)
      \o (IF x >= distance THEN <<(<<x - distance, y>>)>> ELSE <<>>)

\* north, south, west, east, in the order the source pushes them
get_neighbours(cell, distance) ==
  LET x == cell[1]
      y == cell[2]
  IN  (IF y >= distance THEN <<(<<x, y - distance>>)>> ELSE <<>>)
      \o (IF in_bounds(x, y + distance) THEN <<(<<x, y + distance>>)>> ELSE <<>>)
      \o (IF x >= distance THEN <<(<<x - distance, y>>)>> ELSE <<>>)
      \o (IF in_bounds(x + distance, y) THEN <<(<<x + distance, y>>)>> ELSE <<>>)

\* ---------------------------------------------------------------- add_maze
\* variant: the difference itself in place of its sign
signumIdentity(n) == n

signum(n) == IF n > 0 THEN 1 ELSE IF n < 0 THEN -1 ELSE 0

\* variant: a scan that stops two columns early
OddCellsShort ==
  {t \in (0..(width - 3)) \X (0..(height - 1)) : is_odd(t[1]) /\ is_odd(t[2])}

\* `(0..width).filter(Integer::is_odd)` by `(0..height).filter(Integer::is_odd)`
OddCells ==
  {t \in (0..(width - 1)) \X (0..(height - 1)) : is_odd(t[1]) /\ is_odd(t[2])}

EmptyOddCells == {t \in OddCells : map[t] = Empty}

\* position of a cell in the scan order of the two nested loops over x and y
ScanBefore(a, b) == a[1] < b[1] \/ (a[1] = b[1] /\ a[2] < b[2])

\* the cell the scan stops at next: every odd cell before it is not Empty
NextEmptyCell ==
  CHOOSE t \in EmptyOddCells : \A u \in EmptyOddCells : u = t \/ ScanBefore(t, u)

\* the scan reaches an Empty odd cell and starts a component there
add_maze_start ==
  /\ pc = "add_maze"
  /\ visited_cells = <<>>
  /\ EmptyOddCells # {}
  /\ LET cell == NextEmptyCell
     IN  /\ map' = [map EXCEPT ![cell] = Corridor]
         /\ visited_cells' = <<cell>>
         /\ corridor' = <<cell>>
  /\ UNCHANGED <<ctrl, args, query, room_options, rooms, corridors,
                 rooms_locals,
                 maze_corridors, doors_locals, removed>>

\* the cells of `neighbours` the carver may still move to
Unvisited(neighbours) == SelectSeq(neighbours, LAMBDA t : map[t] = Empty)

\* one iteration of `while !visited_cells.is_empty()`; the iteration that
\* leaves the stack empty also runs corridors.push(corridor)
add_maze_step ==
  /\ pc = "add_maze"
  /\ visited_cells # <<>>
  /\ LET cur_cell == visited_cells[Len(visited_cells)]
         popped == SubSeq(visited_cells, 1, Len(visited_cells) - 1)
         neighbours == get_neighbours(cur_cell, 2)
         unvisited_neighbours == Unvisited(neighbours)
     IN  IF unvisited_neighbours = <<>>
           THEN /\ visited_cells' = popped
                /\ IF popped = <<>>
                     THEN /\ maze_corridors' = Append(maze_corridors, corridor)
                          /\ corridor' = <<>>
                     ELSE UNCHANGED <<maze_corridors, corridor>>
                /\ UNCHANGED map
           ELSE \E k \in 1..Len(unvisited_neighbours) :
                  LET rand_neighbour == unvisited_neighbours[k]
                      wall_to_remove ==
                        <<cur_cell[1] + signum(rand_neighbour[1] - cur_cell[1]),
                          cur_cell[2] + signum(rand_neighbour[2] - cur_cell[2])>>
                  IN  /\ map' = [map EXCEPT ![wall_to_remove] = Corridor,
                                            ![rand_neighbour] = Corridor]
                      /\ visited_cells' = popped \o <<cur_cell, rand_neighbour>>
                      /\ corridor' = corridor \o <<rand_neighbour, wall_to_remove>>
                      /\ UNCHANGED maze_corridors
  /\ UNCHANGED <<ctrl, args, query, room_options, rooms, corridors,
                 rooms_locals,
                 doors_locals, removed>>

\* the scan is over: self.corridors = corridors
add_maze_return ==
  /\ pc = "add_maze"
  /\ visited_cells = <<>>
  /\ EmptyOddCells = {}
  /\ corridors' = maze_corridors
  /\ pc' = "add_doors"
  /\ visited_cells' = <<>>
  /\ corridor' = <<>>
  /\ maze_corridors' = <<>>
  /\ UNCHANGED <<panic_msg, args, query, room_options, map, rooms,
                 rooms_locals,
                 doors_locals, removed>>

\* --------------------------------------------------------------- add_doors
\* the orders x_order.shuffle / y_order.shuffle can leave a range in
ShuffledOrders(S) ==
  {p \in [1..Cardinality(S) -> S] : \A i, j \in DOMAIN p : p[i] = p[j] => i = j}

\* regions = rooms ++ corridors and the two shuffled walk orders.  With a
\* width or height of 1 the subtraction `self.width() - 2` overflows: a debug
\* build panics there, a release build wraps and fails in collect() on the
\* range 2..usize::MAX; both end the run.  x_order is
\* walked exactly once, so its shuffle is modelled by drawing the next x
\* among the entries not walked yet; y_order is walked once per x and is
\* drawn here.
add_doors_begin ==
  /\ pc = "add_doors"
  /\ IF width < 2 \/ height < 2
       THEN /\ Panic("attempt to subtract with overflow")
            /\ UNCHANGED doors_locals
       ELSE /\ pc' = "add_doors_scan"
            /\ UNCHANGED panic_msg
            /\ regions' = rooms \o corridors
            /\ initial_regions' = rooms \o corridors
            /\ x_todo' = 2..(width - 3)
            /\ y_order' \in ShuffledOrders(2..(height - 3))
            /\ y_idx' = None
            /\ cur_x' = None
  /\ UNCHANGED <<args, query, room_options, level, rooms_locals, maze_locals,
                 removed>>

Contains(r, t) == \E i \in 1..Len(r) : r[i] = t

\* variant: a skip test that looks at the left/right pair only
SameRegionOneSideOnly(r, x, y) ==
  Contains(r, <<x - 1, y>>) /\ Contains(r, <<x + 1, y>>)

\* `if left && right || top && bottom { continue; }`
SameRegion(r, x, y) ==
  \/ Contains(r, <<x - 1, y>>) /\ Contains(r, <<x + 1, y>>)
  \/ Contains(r, <<x, y - 1>>) /\ Contains(r, <<x, y + 1>>)

Max(S) == CHOOSE m \in S : \A n \in S : n <= m

\* variant: a scan without the same-region skip
FindRegionNoSkip(regs, x, y, t) ==
  LET found == {idx \in 1..Len(regs) : Contains(regs[idx], t)}
  IN  IF found = {} THEN None ELSE Max(found)

\* the index the scan over regs leaves in left_region (t the left tile),
\* right_region, ...: the last region not skipped that contains t
FindRegion(regs, x, y, t) ==
  LET found == {idx \in 1..Len(regs) :
                  ~SameRegion(regs[idx], x, y) /\ Contains(regs[idx], t)}
  IN  IF found = {} THEN None ELSE Max(found)

\* variant: a removal that always takes the first element
RemoveAtFirst(s, i) == SubSeq(s, 2, Len(s))

RemoveAt(s, i) == SubSeq(s, 1, i - 1) \o SubSeq(s, i + 1, Len(s))

\* the closure connect_if_possible at coordinate (x, y), on the map,
\* self.corridors and regions held in st; remove is the outcome of
\* rng.gen_bool(0.6).  A panic leaves the writes made before it.
connect_if_possible(st, x, y, region_a, region_b, remove) ==
  IF st.panic # NoPanic THEN st
  ELSE IF ~(region_a # None /\ region_b # None) THEN st
  ELSE
    LET door == [st EXCEPT !.map[<<x, y>>] = Door]
    IN  IF Len(st.corridors) = 0
          THEN [door EXCEPT !.panic = "index out of bounds: corridors[0]"]
        ELSE
          LET pushed == [door EXCEPT !.corridors[1] = Append(@, <<x, y>>)]
          IN  IF region_b > Len(st.regions) \/ region_a > Len(st.regions)
                THEN [pushed EXCEPT !.panic = "index out of bounds: regions"]
              ELSE
                LET merged == [pushed EXCEPT !.regions[region_a] =
                                               @ \o st.regions[region_b]]
                IN  IF remove
                      THEN [merged EXCEPT !.regions = RemoveAt(@, region_b)]
                      ELSE merged

\* variant: a scan that keeps the regions the same-region test skips
ScanRegionsNoSkip(x, y) ==
  [left |-> FindRegionNoSkip(regions, x, y, <<x - 1, y>>),
   right |-> FindRegionNoSkip(regions, x, y, <<x + 1, y>>),
   top |-> FindRegionNoSkip(regions, x, y, <<x, y - 1>>),
   bottom |-> FindRegionNoSkip(regions, x, y, <<x, y + 1>>)]

\* left_region, right_region, top_region and bottom_region after the scan
\* over the regions at coordinate (x, y)
ScanRegions(x, y) ==
  [left |-> FindRegion(regions, x, y, <<x - 1, y>>),
   right |-> FindRegion(regions, x, y, <<x + 1, y>>),
   top |-> FindRegion(regions, x, y, <<x, y - 1>>),
   bottom |-> FindRegion(regions, x, y, <<x, y + 1>>)]

\* the outcomes of rng.gen_bool(0.6) in a call of connect_if_possible: it is
\* drawn only when both regions are there
GenBool(region_a, region_b) ==
  IF region_a # None /\ region_b # None THEN BOOLEAN ELSE {FALSE}

\* variant: a second call that is handed the left/right pair again
ProcessCoordinateSamePair(x, y, found, remove_lr, remove_tb) ==
  LET st0 == [map |-> map, corridors |-> corridors, regions |-> regions,
              panic |-> NoPanic]
      st1 == connect_if_possible(st0, x, y, found.left, found.right, remove_lr)
  IN  connect_if_possible(st1, x, y, found.left, found.right, remove_lr)

\* the body of the inner loop at coordinate (x, y): the two calls of
\* connect_if_possible, the second with the indices the scan found
ProcessCoordinate(x, y, found, remove_lr, remove_tb) ==
  LET st0 == [map |-> map, corridors |-> corridors, regions |-> regions,
              panic |-> NoPanic]
      st1 == connect_if_possible(st0, x, y, found.left, found.right, remove_lr)
  IN  connect_if_possible(st1, x, y, found.top, found.bottom, remove_tb)

\* one iteration of the inner loop, entering the next x of the outer loop
\* when the previous inner loop is over; `break` leaves the inner loop only
add_doors_step ==
  /\ pc = "add_doors_scan"
  /\ y_order # <<>>
  /\ \E x \in (IF cur_x = None THEN x_todo ELSE {cur_x}) :
       LET i == IF cur_x = None THEN 1 ELSE y_idx
           y == y_order[i]
           found == ScanRegions(x, y)
       IN  \E remove_lr \in GenBool(found.left, found.right) :
           \E remove_tb \in GenBool(found.top, found.bottom) :
             LET st == ProcessCoordinate(x, y, found, remove_lr, remove_tb)
             IN  /\ map' = st.map
                 /\ corridors' = st.corridors
                 /\ regions' = st.regions
                 /\ x_todo' = x_todo \ {x}
                 /\ IF st.panic # NoPanic
                      THEN Panic(st.panic) /\ cur_x' = x /\ y_idx' = i
                      ELSE /\ UNCHANGED ctrl
                           /\ IF Len(st.regions) = 1 \/ i = Len(y_order)
                                THEN cur_x' = None /\ y_idx' = None
                                ELSE cur_x' = x /\ y_idx' = i + 1
  /\ UNCHANGED <<args, query, room_options, rooms, rooms_locals, maze_locals,
                 initial_regions, y_order, removed>>

\* the outer loop is over
add_doors_return ==
  /\ pc = "add_doors_scan"
  /\ cur_x = None
  /\ x_todo = {} \/ y_order = <<>>
  /\ pc' = "remove_dead_ends"
  /\ regions' = <<>>
  /\ initial_regions' = <<>>
  /\ x_todo' = {}
  /\ y_order' = <<>>
  /\ UNCHANGED <<panic_msg, args, query, room_options, level, rooms_locals,
                 maze_locals, y_idx, cur_x, removed>>

\* --------------------------------------------------------- remove_dead_ends
\* variant: a test for four Empty neighbours
IsDeadEndFour(m, cell) ==
  LET neighbours == get_neighbours(cell, 1)
  IN  Cardinality({i \in 1..Len(neighbours) : m[neighbours[i]] = Empty}) = 4

\* variant: a test for two Empty neighbours or more
IsDeadEndTwoOrMore(m, cell) ==
  LET neighbours == get_neighbours(cell, 1)
  IN  Cardinality({i \in 1..Len(neighbours) : m[neighbours[i]] = Empty}) >= 2

\* `neighbour_count == 3`: is cell a dead end on the map m
IsDeadEnd(m, cell) ==
  LET neighbours == get_neighbours(cell, 1)
  IN  Cardinality({i \in 1..Len(neighbours) : m[neighbours[i]] = Empty}) = 3

\* variant: a pass that does not count its removals
RECURSIVE PruneCorridorNoCount(_, _, _)
PruneCorridorNoCount(m, cor, l) ==
  IF l = 0 THEN [map |-> m, corridor |-> cor, removed |-> 0]
  ELSE IF IsDeadEnd(m, cor[l])
    THEN PruneCorridorNoCount([m EXCEPT ![cor[l]] = Empty], RemoveAt(cor, l), l - 1)
    ELSE PruneCorridorNoCount(m, cor, l - 1)

\* variant: a pass that takes a dead end off its list but leaves its tile
RECURSIVE PruneCorridorKeepTile(_, _, _)
PruneCorridorKeepTile(m, cor, l) ==
  IF l = 0 THEN [map |-> m, corridor |-> cor, removed |-> 0]
  ELSE IF IsDeadEnd(m, cor[l])
    THEN LET rest == PruneCorridorKeepTile(m, RemoveAt(cor, l), l - 1)
         IN  [rest EXCEPT !.removed = @ + 1]
    ELSE PruneCorridorKeepTile(m, cor, l - 1)

\* `for l in (0..corridor.len()).rev()` from index l down, on the map m
RECURSIVE PruneCorridor(_, _, _)
PruneCorridor(m, cor, l) ==
  IF l = 0 THEN [map |-> m, corridor |-> cor, removed |-> 0]
  ELSE IF IsDeadEnd(m, cor[l])
    THEN LET rest == PruneCorridor([m EXCEPT ![cor[l]] = Empty],
                                   RemoveAt(cor, l), l - 1)
         IN  [rest EXCEPT !.removed = @ + 1]
    ELSE PruneCorridor(m, cor, l - 1)

\* variant: a pass that returns the count of its last corridor list only
RECURSIVE PruneFromLastCount(_, _, _)
PruneFromLastCount(m, cors, c) ==
  IF c > Len(cors) THEN [map |-> m, corridors |-> cors, removed |-> 0]
  ELSE LET one == PruneCorridor(m, cors[c], Len(cors[c]))
           rest == PruneFromLastCount(one.map,
                                      [cors EXCEPT ![c] = one.corridor], c + 1)
       IN  IF c = Len(cors) THEN [rest EXCEPT !.removed = one.removed] ELSE rest

\* `for corridor in corridors.iter_mut()` from the c-th corridor on
RECURSIVE PruneFrom(_, _, _)
PruneFrom(m, cors, c) ==
  IF c > Len(cors) THEN [map |-> m, corridors |-> cors, removed |-> 0]
  ELSE LET one == PruneCorridor(m, cors[c], Len(cors[c]))
           rest == PruneFrom(one.map, [cors EXCEPT ![c] = one.corridor], c + 1)
       IN  [rest EXCEPT !.removed = @ + one.removed]

\* one pass of the loop of create_dungeon: a call of remove_dead_ends and
\* the test of its result
remove_dead_ends ==
  /\ pc = "remove_dead_ends"
  /\ LET pass == PruneFrom(map, corridors, 1)
     IN  /\ map' = pass.map
         /\ corridors' = pass.corridors
         /\ removed' = pass.removed
         /\ pc' = IF pass.removed = 0 THEN "done" ELSE "remove_dead_ends"
  /\ UNCHANGED <<panic_msg, args, query, room_options, rooms, rooms_locals,
                 maze_locals, doors_locals>>

\* a further call of remove_dead_ends on the Level create_dungeon returned
\* (the pruner is callable repeatedly); create_dungeon itself never makes it
remove_dead_ends_again ==
  /\ pc \in {"done", "pruned_again"}
  /\ LET pass == PruneFrom(map, corridors, 1)
     IN  /\ map' = pass.map
         /\ corridors' = pass.corridors
         /\ removed' = pass.removed
  /\ pc' = "pruned_again"
  /\ UNCHANGED <<panic_msg, args, query, room_options, rooms, rooms_locals,
                 maze_locals, doors_locals>>

Next ==
  \/ init_map
  \/ create_rooms_attempt
  \/ create_rooms_return
  \/ add_maze_start
  \/ add_maze_step
  \/ add_maze_return
  \/ add_doors_begin
  \/ add_doors_step
  \/ add_doors_return
  \/ remove_dead_ends

Spec == Init /\ [][Next]_vars

\* the generator is one thread that runs until it returns, panics or spins
FairSpec == Spec /\ WF_vars(Next)

\* create_dungeon followed by further calls of the pruner
NextPruner == Next \/ remove_dead_ends_again

SpecPruner == Init /\ [][NextPruner]_vars

\* ------------------------------------------------- a map of three door rows
\* With a height of 5 the scan of add_doors has the one row y = 2, and every
\* room spans the rows 1..3.  This request is the smallest with rooms above
\* and below a scanned row: 7 by 7, two slots of one attempt, rooms of
\* extent 2, with either room tile value.
InitTall ==
  /\ pc = "init_map"
  /\ panic_msg = NoPanic
  /\ width = 7
  /\ height = 7
  /\ room_options = [max_rooms |-> 2, max_attempts |-> 1,
                     min_size |-> 2, max_size |-> 3]
  /\ room_identifier \in RoomIdentifiers
  /\ map = <<>>
  /\ rooms = <<>>
  /\ corridors = <<>>
  /\ room_i = None
  /\ attempt_j = None
  /\ attempts = None
  /\ visited_cells = <<>>
  /\ corridor = <<>>
  /\ maze_corridors = <<>>
  /\ regions = <<>>
  /\ initial_regions = <<>>
  /\ x_todo = {}
  /\ y_order = <<>>
  /\ y_idx = None
  /\ cur_x = None
  /\ removed = None
  /\ nb_cell = <<0, 0>>
  /\ nb_distance = 0
  /\ nb_result = <<>>

\* the requests of Init and the request of InitTall
SpecTall == (Init \/ InitTall) /\ [][Next]_vars /\ WF_vars(Next)

\* ------------------------------------------- get_neighbours called on its own
\* get_neighbours is public and takes any pair of usize as its cell: a Level
\* of any size up to the bounds, a cell inside the grid or past its edges and
\* a step distance from 0 to MaxDistance
InitNeighbours ==
  /\ pc = "get_neighbours"
  /\ panic_msg = NoPanic
  /\ width \in 1..MaxWidth
  /\ height \in 1..MaxHeight
  /\ room_options = NoOptions
  /\ room_identifier = Floor
  /\ map = [t \in (0..(width - 1)) \X (0..(height - 1)) |-> Empty]
  /\ rooms = <<>>
  /\ corridors = <<>>
  /\ room_i = None
  /\ attempt_j = None
  /\ attempts = None
  /\ visited_cells = <<>>
  /\ corridor = <<>>
  /\ maze_corridors = <<>>
  /\ regions = <<>>
  /\ initial_regions = <<>>
  /\ x_todo = {}
  /\ y_order = <<>>
  /\ y_idx = None
  /\ cur_x = None
  /\ removed = None
  /\ nb_cell \in (0..MaxWidth) \X (0..MaxHeight)
  /\ nb_distance \in 0..MaxDistance
  /\ nb_result = <<>>

\* a call of get_neighbours(nb_cell, nb_distance)
get_neighbours_call ==
  /\ pc = "get_neighbours"
  /\ nb_result' = get_neighbours(nb_cell, nb_distance)
  /\ pc' = "get_neighbours_returned"
  /\ UNCHANGED <<panic_msg, args, room_options, level, rooms_locals,
                 maze_locals, doors_locals, removed, nb_cell, nb_distance>>

NextNeighbours == get_neighbours_call

SpecNeighbours == InitNeighbours /\ [][NextNeighbours]_vars

\* ================================================================== claims
\* operators the properties are stated with
NonEmptyTiles(m) == {t \in DOMAIN m : m[t] # Empty}

Adjacent(a, b) ==
  \/ a[1] = b[1] /\ (a[2] = b[2] + 1 \/ b[2] = a[2] + 1)
  \/ a[2] = b[2] /\ (a[1] = b[1] + 1 \/ b[1] = a[1] + 1)

\* the tiles of `tiles` a flood fill over cardinally adjacent tiles reaches
\* from the tiles of seen
RECURSIVE Flood(_, _)
Flood(tiles, seen) ==
  LET more == {t \in tiles \ seen : \E u \in seen : Adjacent(t, u)}
  IN  IF more = {} THEN seen ELSE Flood(tiles, seen \cup more)

\* add_doors has just returned and no pruning pass has run yet
AfterAddDoors == pc = "remove_dead_ends" /\ removed = None

\* create_rooms has returned a Level (the later stages keep Level.rooms)
AfterCreateRooms ==
  pc \in {"add_maze", "add_doors", "add_doors_scan", "remove_dead_ends", "done"}

Returned == pc = "done"

RoomsDisjoint ==
  \A i, j \in 1..Len(rooms) :
    i # j => Range(rooms[i]) \cap Range(rooms[j]) = {}

\* C1: when add_doors has returned, a flood fill over cardinally adjacent
\* non-Empty tiles started at any Floor or Corridor tile reaches every
\* non-Empty tile of the map.
C1_ConnectedAfterDoors ==
  AfterAddDoors =>
    \A s \in NonEmptyTiles(map) :
      map[s] \in {Floor, Corridor} =>
        Flood(NonEmptyTiles(map), {s}) = NonEmptyTiles(map)

\* C2 as stated: after create_rooms and in every returned Level, no two
\* distinct entries of Level.rooms share a tile.
C2_RoomsDisjoint == AfterCreateRooms => RoomsDisjoint

\* C2 as amended: when the room tile value is not Empty, no two distinct
\* entries of Level.rooms share a tile, after create_rooms and in every
\* returned Level.
C2_RoomsDisjointUnlessEmptyValue ==
  (AfterCreateRooms /\ room_identifier # Empty) => RoomsDisjoint

C2_Witness ==
  /\ Returned
  /\ room_identifier # Empty
  /\ Len(rooms) = 2

\* C3: with an even width or height init_map panics before a tile is
\* allocated or a room is placed, so no map with an even dimension exists;
\* with odd width and height init_map does not panic.
C3_EvenDimensionsPanic ==
  /\ (is_even(width) \/ is_even(height)) =>
       /\ pc \in {"init_map", "panic"}
       /\ pc = "panic" => panic_msg = "width and height of map must be odd!"
       /\ DOMAIN map = {}
       /\ rooms = <<>>
  /\ (is_odd(width) /\ is_odd(height)) =>
       /\ panic_msg # "width and height of map must be odd!"
       /\ pc # "init_map" => DOMAIN map = (0..(width - 1)) \X (0..(height - 1))

C3_Witness ==
  /\ pc = "panic"
  /\ is_even(width)
  /\ is_odd(height)
  /\ panic_msg = "width and height of map must be odd!"

\* the size range [min_size, max_size) of the request holds an even number
SizeRangeHasEven ==
  \E n \in room_options.min_size..(room_options.max_size - 1) : n % 2 = 0

\* C4: a request with odd width and height of at least 3 and a size range
\* that contains an even number never panics, however many rooms, corridor
\* components and doors the run produces.  (The request is the first state of
\* a behaviour.)
C4_NeverPanics ==
  (/\ width % 2 = 1 /\ height % 2 = 1
   /\ width >= 3 /\ height >= 3
   /\ SizeRangeHasEven)
    => [](pc # "panic")

\* C5: a request with odd width and height and a size range that contains an
\* even number always runs to completion: create_dungeon returns.
C5_RunsToCompletion ==
  (/\ width % 2 = 1 /\ height % 2 = 1
   /\ SizeRangeHasEven)
    => <>(pc = "done")

\* the odd-odd cells and the carved walls of a corridor tile list
CellsOf(c) == {t \in Range(c) : t[1] % 2 = 1 /\ t[2] % 2 = 1}
WallsOf(c) == Range(c) \ CellsOf(c)

\* the two cells a wall tile lies between
WallEnds(w) ==
  IF w[1] % 2 = 0
    THEN {<<w[1] - 1, w[2]>>, <<w[1] + 1, w[2]>>}
    ELSE {<<w[1], w[2] - 1>>, <<w[1], w[2] + 1>>}

\* the cells joined to the cells of seen by a chain of the given walls
RECURSIVE Joined(_, _, _)
Joined(cells, walls, seen) ==
  LET more == {t \in cells \ seen :
                 \E w \in walls : \E u \in seen : WallEnds(w) = {t, u}}
  IN  IF more = {} THEN seen ELSE Joined(cells, walls, seen \cup more)

IsTree(c) ==
  LET cells == CellsOf(c)
      walls == WallsOf(c)
      k == Cardinality(cells)
  IN  /\ Len(c) = 2 * k - 1
      /\ Cardinality(walls) = k - 1
      /\ \A w \in walls :
           /\ (w[1] % 2 = 0) # (w[2] % 2 = 0)
           /\ WallEnds(w) \subseteq cells
      /\ Joined(cells, walls, {c[1]}) = cells
      /\ \A w \in walls : Joined(cells, walls \ {w}, {c[1]}) # cells

\* the corridor components add_maze has completed
MazeComponents ==
  IF pc = "add_maze" THEN maze_corridors
  ELSE IF pc = "add_doors" THEN corridors
  ELSE <<>>

\* C6: in every corridor component add_maze produces, the odd-odd cells and
\* the carved wall cells form a tree: the walls join all the cells, taking
\* any wall away separates them (no cycle), and k cells come with k-1 walls
\* in a tile list of 2k-1 coordinates.
C6_MazeComponentsAreTrees ==
  \A i \in 1..Len(MazeComponents) : IsTree(MazeComponents[i])

C6_Witness ==
  /\ pc = "add_doors"
  /\ Len(corridors) >= 2
  /\ \E i \in 1..Len(corridors) : Cardinality(CellsOf(corridors[i])) >= 4

\* add_maze has just returned
AfterAddMaze == pc = "add_doors"

\* room placement left the tile t Empty
LeftEmptyByRooms(t) ==
  room_identifier = Empty \/ \A i \in 1..Len(rooms) : t \notin Range(rooms[i])

\* C7: when add_maze returns, every tile with two odd coordinates is
\* non-Empty, and each one that room placement left Empty is Corridor and in
\* exactly one corridor component list.
C7_EveryOddCellCarved ==
  AfterAddMaze =>
    \A x \in 0..(width - 1) : \A y \in 0..(height - 1) :
      (x % 2 = 1 /\ y % 2 = 1) =>
        /\ map[<<x, y>>] # Empty
        /\ LeftEmptyByRooms(<<x, y>>) =>
             /\ map[<<x, y>>] = Corridor
             /\ Cardinality({i \in 1..Len(corridors) :
                               <<x, y>> \in Range(corridors[i])}) = 1

C7_Witness ==
  /\ AfterAddMaze
  /\ room_identifier = Floor
  /\ Len(rooms) >= 1
  /\ Len(corridors) >= 2

\* t lies in the rectangle of the room r (r starts at its origin and ends at
\* the opposite corner)
InRectangle(t, r) ==
  /\ r[1][1] <= t[1] /\ t[1] <= r[Len(r)][1]
  /\ r[1][2] <= t[2] /\ t[2] <= r[Len(r)][2]

\* C8: with room tile value Floor, from the return of create_rooms up to the
\* returned Level, a tile is Floor exactly if it lies in the rectangle of
\* some entry of Level.rooms.
C8_FloorIffInRoom ==
  (AfterCreateRooms /\ room_identifier = Floor) =>
    \A t \in DOMAIN map :
      map[t] = Floor <=> \E i \in 1..Len(rooms) : InRectangle(t, rooms[i])

C8_Witness ==
  /\ Returned
  /\ room_identifier = Floor
  /\ Len(rooms) = 2
  /\ \E t \in DOMAIN map : map[t] = Door
  /\ \E t \in DOMAIN map : map[t] = Corridor

\* the number of Empty cardinal neighbours of t
EmptyNeighbours(t) ==
  Cardinality({u \in DOMAIN map : Adjacent(t, u) /\ map[u] = Empty})

\* C9: in the Level create_dungeon returns, no coordinate listed in
\* Level.corridors has exactly three Empty cardinal neighbours.
C9_NoDeadEndReturned ==
  Returned =>
    \A i \in 1..Len(corridors) : \A k \in 1..Len(corridors[i]) :
      EmptyNeighbours(corridors[i][k]) # 3

\* a returned Level in which pruning has erased a carved cell and has left
\* corridor and door tiles
C9_Witness ==
  /\ Returned
  /\ removed = 0
  /\ \E t \in DOMAIN map : t[1] % 2 = 1 /\ t[2] % 2 = 1 /\ map[t] = Empty
  /\ \E t \in DOMAIN map : map[t] = Door
  /\ \E i \in 1..Len(corridors) : Len(corridors[i]) >= 3

\* every step taken in one of these three states is a call of
\* remove_dead_ends
PrunerCallAtFixedPoint ==
  pc \in {"remove_dead_ends", "done", "pruned_again"} =>
    /\ removed' = 0 => (map' = map /\ corridors' = corridors)
    /\ removed = 0 => (removed' = 0 /\ map' = map /\ corridors' = corridors)

\* C10: a call of remove_dead_ends that returns 0 has changed neither the
\* map nor Level.corridors, and a call made after a call that returned 0
\* returns 0 and changes nothing.
C10_PrunerIdempotent == [][PrunerCallAtFixedPoint]_vars

\* a further call has been made on a returned Level that still has corridors
C10_Witness ==
  /\ pc = "pruned_again"
  /\ removed = 0
  /\ \E i \in 1..Len(corridors) : Len(corridors[i]) >= 3

\* an attempt of create_rooms has run to its end in this step
AttemptMade == pc = "create_rooms" /\ attempts' = attempts + 1

\* the attempt of this step was rejected: no tile changed, no room recorded,
\* and the slot is left only when its attempts are used up
AttemptRejected ==
  /\ rooms' = rooms
  /\ map' = map
  /\ IF attempt_j + 1 >= room_options.max_attempts
       THEN room_i' = room_i + 1 /\ attempt_j' = 0
       ELSE room_i' = room_i /\ attempt_j' = attempt_j + 1

\* the attempt of this step recorded one room, on a rectangle that held Empty
\* tiles only, and closed its slot
AttemptPlaced ==
  /\ Len(rooms') = Len(rooms) + 1
  /\ SubSeq(rooms', 1, Len(rooms)) = rooms
  /\ LET r == rooms'[Len(rooms')]
     IN  \A t \in DOMAIN map :
           IF InRectangle(t, r)
             THEN map[t] = Empty /\ map'[t] = room_identifier
             ELSE map'[t] = map[t]
  /\ room_i' = room_i + 1
  /\ attempt_j' = 0

RoomPlacementStep ==
  /\ AttemptMade =>
       /\ pc' = "create_rooms"
       /\ panic_msg' = NoPanic
       /\ AttemptRejected \/ AttemptPlaced
  /\ pc = "create_rooms" =>
       /\ Len(rooms') <= room_options.max_rooms
       /\ pc' = "create_rooms" => Len(rooms') <= room_i'

\* C11: create_rooms places at most max_rooms rooms, at most one per slot;
\* an attempt either records one room on a rectangle that held Empty tiles
\* only, or changes no tile and records no room (so an attempt on a rectangle
\* with a non-Empty tile does the latter); a slot whose attempts are all
\* rejected adds no room, raises no error and hands over to the next slot.
C11_RoomPlacement == [][RoomPlacementStep]_vars

\* one slot has used up its two attempts without a room and the other slot
\* has placed one
C11_Witness ==
  /\ pc = "create_rooms"
  /\ room_options.max_attempts = 2
  /\ room_i = 2
  /\ attempts = 3
  /\ Len(rooms) = 1
  /\ rooms[1][1] = <<3, 1>>

\* t is a coordinate of the grid
InGrid(t) == t[1] >= 0 /\ t[1] < width /\ t[2] >= 0 /\ t[2] < height

NeighboursReturned == pc = "get_neighbours_returned"

\* C12 as stated: for every input cell and every step distance, every
\* coordinate get_neighbours returns lies inside the grid.
C12_NeighboursInGrid ==
  NeighboursReturned => \A i \in 1..Len(nb_result) : InGrid(nb_result[i])

\* C12 as amended: for every input cell that lies inside the grid and every
\* step distance, every coordinate get_neighbours returns lies inside the
\* grid.
C12_NeighboursOfGridCellInGrid ==
  (NeighboursReturned /\ InGrid(nb_cell)) =>
    \A i \in 1..Len(nb_result) : InGrid(nb_result[i])

\* a cell of the grid with all four neighbours at distance 2
C12_Witness ==
  /\ NeighboursReturned
  /\ InGrid(nb_cell)
  /\ nb_distance = 2
  /\ Len(nb_result) = 4

\* both loops of add_doors are over and add_doors is about to return
AddDoorsReturning ==
  /\ pc = "add_doors_scan"
  /\ cur_x = None
  /\ x_todo = {} \/ y_order = <<>>

\* C13: when add_doors returns, its working region set (at first every room
\* and every corridor component) holds exactly one region.
C13_OneRegionAtReturn == AddDoorsReturning => Len(regions) = 1

\* the scan of add_doors has processed at least one coordinate and one
\* region is left in the working set
OneRegionLeft ==
  /\ pc = "add_doors_scan"
  /\ x_todo # 2..(width - 3)
  /\ Len(regions) = 1

ScanStopsAtOneRegion == OneRegionLeft => (x_todo' = x_todo /\ map' = map)

InnerLoopStopsAtOneRegion ==
  OneRegionLeft =>
    /\ map' = map
    /\ corridors' = corridors
    /\ pc' = "add_doors_scan" => (regions' = regions /\ cur_x' = None)
    /\ pc' \in {"add_doors_scan", "remove_dead_ends"}

IsBorderedOddRectangle(r) ==
  LET x_min == r[1][1]
      y_min == r[1][2]
      x_max == r[Len(r)][1]
      y_max == r[Len(r)][2]
  IN  /\ Range(r) = (x_min..x_max) \X (y_min..y_max)
      /\ Len(r) = (x_max - x_min + 1) * (y_max - y_min + 1)
      /\ x_min % 2 = 1 /\ y_min % 2 = 1
      /\ (x_max - x_min) % 2 = 0 /\ (y_max - y_min) % 2 = 0
      /\ x_max - x_min >= 2 /\ y_max - y_min >= 2
      /\ x_max % 2 = 1 /\ y_max % 2 = 1
      /\ \A t \in Range(r) :
           /\ 1 <= t[1] /\ t[1] <= width - 2
           /\ 1 <= t[2] /\ t[2] <= height - 2

\* C15: every placed room is a full axis-aligned rectangle with an odd
\* origin and an even extent of at least 2 on each axis, so its minimum and
\* maximum x and y are odd, it spans at least 3 tiles per axis, and all its
\* tiles lie in 1..width-2 by 1..height-2.
C15_RoomsAreBorderedOddRectangles ==
  \A i \in 1..Len(rooms) : IsBorderedOddRectangle(rooms[i])

\* a room of extent 4 and a room of extent 2 that ends at the border cell
C15_Witness ==
  /\ pc = "add_maze"
  /\ Len(rooms) = 2
  /\ \E i \in 1..2 : rooms[i][Len(rooms[i])][1] - rooms[i][1][1] = 4
  /\ \E i \in 1..2 :
       /\ rooms[i][Len(rooms[i])][1] - rooms[i][1][1] = 2
       /\ rooms[i][Len(rooms[i])][1] = width - 2

\* a and b are at cardinal distance 2
TwoApart(a, b) ==
  \/ a[1] = b[1] /\ (a[2] = b[2] + 2 \/ b[2] = a[2] + 2)
  \/ a[2] = b[2] /\ (a[1] = b[1] + 2 \/ b[1] = a[1] + 2)

\* the component list c is closed under 2-step moves: every cell of the grid
\* two steps from one of its cells is taken (by a room or a corridor), and by
\* no corridor component but c itself
ComponentClosed(c, others) ==
  \A a \in CellsOf(c) : \A b \in DOMAIN map :
    TwoApart(a, b) =>
      /\ map[b] # Empty
      /\ \A k \in 1..Len(others) : others[k] # c => b \notin Range(others[k])

\* C16: every corridor component add_maze has completed covers a whole
\* connected component of empty space: no cell two steps from one of its
\* cells is left Empty (the carver would have moved there), and none belongs
\* to another corridor component; so when add_maze returns, no two odd cells
\* at cardinal distance 2 belong to two different components.
C16_ComponentsCoverEmptySpace ==
  \A i \in 1..Len(MazeComponents) :
    ComponentClosed(MazeComponents[i], MazeComponents)

\* add_maze has returned two components, one of at least three cells, next
\* to a room
C16_Witness ==
  /\ AfterAddMaze
  /\ Len(rooms) = 1
  /\ Len(corridors) = 2
  /\ \E i \in 1..2 : Cardinality(CellsOf(corridors[i])) >= 3

\* the number of coordinates in the corridor lists cors
RECURSIVE TotalTiles(_)
TotalTiles(cors) ==
  IF cors = <<>> THEN 0 ELSE Len(Head(cors)) + TotalTiles(Tail(cors))

\* how often the coordinate t is listed in the corridor list c
Occurrences(c, t) == Cardinality({k \in 1..Len(c) : c[k] = t})

\* the coordinates this step has taken out of Level.corridors
RemovedTiles ==
  {t \in DOMAIN map :
     \E i \in 1..Len(corridors) :
       Occurrences(corridors'[i], t) < Occurrences(corridors[i], t)}

\* every step taken in one of these three states is a call of
\* remove_dead_ends
PrunerCallAccounts ==
  pc \in {"remove_dead_ends", "done", "pruned_again"} =>
    /\ Len(corridors') = Len(corridors)
    /\ \A i \in 1..Len(corridors) : \A t \in DOMAIN map :
         Occurrences(corridors'[i], t) <= Occurrences(corridors[i], t)
    /\ removed' = TotalTiles(corridors) - TotalTiles(corridors')
    /\ TotalTiles(corridors') <= TotalTiles(corridors)
    /\ \A t \in RemovedTiles : map'[t] = Empty
    /\ \A t \in DOMAIN map : map'[t] # map[t] => t \in RemovedTiles
    /\ DOMAIN map' = DOMAIN map

\* C17: a call of remove_dead_ends returns exactly the number of coordinates
\* it has taken out of Level.corridors; the tile of each of them is Empty
\* afterwards and no other tile changes; so the number of coordinates in
\* Level.corridors never grows over repeated calls and shrinks by the
\* returned count.
C17_PrunerAccounts == [][PrunerCallAccounts]_vars

\* a pass has removed several coordinates from a level with two corridor
\* lists and a door, and has left some; the next call is due
C17_Witness ==
  /\ pc = "remove_dead_ends"
  /\ removed >= 2
  /\ Len(corridors) = 2
  /\ \E t \in DOMAIN map : map[t] = Door
  /\ TotalTiles(corridors) >= 3

\* the coordinates this step of the scan has stamped as Door: a tile that
\* has become Door, or the coordinate pushed to the first corridor list
StampedNow ==
  IF pc # "add_doors_scan" THEN {}
  ELSE {t \in DOMAIN map : map'[t] = Door /\ map[t] # Door}
       \cup (IF Len(corridors) >= 1 /\ Len(corridors'[1]) > Len(corridors[1])
               THEN {corridors'[1][Len(corridors'[1])]}
               ELSE {})

\* the initial regions that hold a cardinal neighbour of t
RegionsAround(t) ==
  {i \in 1..Len(initial_regions) :
     \E u \in Range(initial_regions[i]) : Adjacent(t, u)}

\* the initial regions a and b lie on opposite sides of t
OppositeSides(t, a, b) ==
  \/ /\ <<t[1] - 1, t[2]>> \in Range(initial_regions[a])
     /\ <<t[1] + 1, t[2]>> \in Range(initial_regions[b])
  \/ /\ <<t[1], t[2] - 1>> \in Range(initial_regions[a])
     /\ <<t[1], t[2] + 1>> \in Range(initial_regions[b])

IsConnector(t) ==
  /\ Cardinality(RegionsAround(t)) = 2
  /\ \E a, b \in RegionsAround(t) : a # b /\ OppositeSides(t, a, b)

DoorsAreConnectors == \A t \in StampedNow : IsConnector(t)

\* C18 as stated: every coordinate add_doors stamps as Door is a connector
\* at the moment it is stamped: its cardinal neighbours belong to exactly two
\* distinct initial regions, which lie on opposite sides of it.
C18_DoorsAreConnectors == [][DoorsAreConnectors]_vars

DoorsAreConnectorsUnlessEmptyValue ==
  room_identifier # Empty => DoorsAreConnectors

\* C18 as amended: when the room tile value is not Empty, every coordinate
\* add_doors stamps as Door is a connector at the moment it is stamped: its
\* cardinal neighbours belong to exactly two distinct initial regions, which
\* lie on opposite sides of it.
C18_DoorsAreConnectorsUnlessEmptyValue ==
  [][DoorsAreConnectorsUnlessEmptyValue]_vars

\* two doors have been stamped next to Floor rooms and the scan goes on
C18_Witness ==
  /\ pc = "add_doors_scan"
  /\ room_identifier = Floor
  /\ Len(rooms) >= 1
  /\ Cardinality({t \in DOMAIN map : map[t] = Door}) = 2
  /\ regions # initial_regions

\* the coordinates the scan of add_doors may process next
NextCoordinates ==
  IF pc # "add_doors_scan" \/ y_order = <<>> THEN {}
  ELSE IF cur_x = None THEN {<<x, y_order[1]>> : x \in x_todo}
  ELSE {<<cur_x, y_order[y_idx]>>}

\* the working sets one merge can leave of regs: region b is appended to
\* region a, and b is either kept or taken out
Absorb(regs, a, b) == [regs EXCEPT ![a] = regs[a] \o regs[b]]

Without(regs, b) ==
  [k \in 1..(Len(regs) - 1) |-> IF k < b THEN regs[k] ELSE regs[k + 1]]

MergeResults(regs) ==
  UNION {{Absorb(regs, a, b), Without(Absorb(regs, a, b), b)} :
           <<a, b>> \in {p \in (1..Len(regs)) \X (1..Len(regs)) : p[1] # p[2]}}

\* every tile of every initial region is in a region of the working set,
\* which holds at least one region (true of the working set as it is built)
NoTileLost ==
  pc = "add_doors_scan" =>
    /\ \A i \in 1..Len(initial_regions) :
         \A t \in Range(initial_regions[i]) :
           \E j \in 1..Len(regions) : t \in Range(regions[j])
    /\ Len(regions) >= 1

\* a coordinate of the scan leaves the working set as it is, or as one merge
\* leaves it, or (when it connects both of its pairs) as two merges leave it
MergeStep ==
  /\ NoTileLost'
  /\ pc = "add_doors_scan" /\ pc' # "remove_dead_ends" =>
       \/ regions' = regions
       \/ regions' \in MergeResults(regions)
       \/ \E once \in MergeResults(regions) : regions' \in MergeResults(once)

\* C19: merging in add_doors never loses a tile: throughout add_doors every
\* tile of every initial region is in some region of the working set; a
\* merge appends the whole list of region b to the list of region a; and the
\* working set shrinks only by taking out the absorbed region b, one region
\* per removal, and never below one region.
C19_MergingKeepsTiles == [][MergeStep]_vars

\* a door has merged a region into another and the absorbed region has been
\* taken out of a working set of at least three regions
C19_Witness ==
  /\ pc = "add_doors_scan"
  /\ Len(initial_regions) >= 3
  /\ Len(regions) = Len(initial_regions) - 1
  /\ \E j \in 1..Len(regions) : \A i \in 1..Len(initial_regions) :
       regions[j] # initial_regions[i]

\* the number of coordinates this step of the scan has pushed to the first
\* corridor list (each connection pushes its coordinate once)
PushedNow ==
  IF pc = "add_doors_scan" /\ Len(corridors) >= 1
    THEN Len(corridors'[1]) - Len(corridors[1])
    ELSE 0

\* region a of regs holds the left (top) neighbour of t and region b the
\* right (bottom) one
PairAround(regs, t, a, b) ==
  \/ /\ <<t[1] - 1, t[2]>> \in Range(regs[a])
     /\ <<t[1] + 1, t[2]>> \in Range(regs[b])
  \/ /\ <<t[1], t[2] - 1>> \in Range(regs[a])
     /\ <<t[1], t[2] + 1>> \in Range(regs[b])

\* a coordinate connects one pair at most, no region index is out of bounds,
\* and the merge of a connection joins two regions of the working set that
\* hold the two neighbours of the pair
OneConnection ==
  /\ PushedNow <= 1
  /\ panic_msg' # "index out of bounds: regions"
  /\ (PushedNow = 1 /\ pc' # "panic") =>
       LET t == corridors'[1][Len(corridors'[1])]
       IN  \E a, b \in 1..Len(regions) :
             /\ a # b
             /\ PairAround(regions, t, a, b)
             /\ regions' \in {Absorb(regions, a, b),
                              Without(Absorb(regions, a, b), b)}

\* C20 as stated: at no scanned coordinate does add_doors connect both the
\* left/right and the top/bottom pair; every region index handed to
\* connect_if_possible is within the working set and denotes the region the
\* scan of that coordinate found.
C20_OneConnection == [][OneConnection]_vars

OneConnectionUnlessEmptyValue == room_identifier # Empty => OneConnection

\* C20 as amended: when the room tile value is not Empty, at no scanned
\* coordinate does add_doors connect both the left/right and the top/bottom
\* pair; every region index handed to connect_if_possible is within the
\* working set and denotes the region the scan of that coordinate found.
C20_OneConnectionUnlessEmptyValue == [][OneConnectionUnlessEmptyValue]_vars

\* on the 7 by 7 map with a Floor room a door below the room has merged two
\* regions and the absorbed one has been taken out
C20_Witness ==
  /\ pc = "add_doors_scan"
  /\ height = 7
  /\ room_identifier = Floor
  /\ Len(rooms) = 1
  /\ Len(regions) < Len(initial_regions)
  /\ \E x \in 0..(width - 1) : map[<<x, 4>>] = Door

\* t is listed in one of the corridor lists cors
Listed(cors, t) == \E i \in 1..Len(cors) : t \in Range(cors[i])

\* a step of the scan changes Empty tiles only, and only to Door; it pushes
\* at most one coordinate, whose tile was Empty (so neither a room tile, nor
\* a carved tile, nor a door) and which was in no corridor list
DoorsOnEmptyOnce ==
  pc = "add_doors_scan" =>
    /\ \A t \in DOMAIN map :
         map'[t] # map[t] => (map[t] = Empty /\ map'[t] = Door)
    /\ PushedNow <= 1
    /\ PushedNow >= 1 =>
         LET t == corridors'[1][Len(corridors[1]) + 1]
         IN  /\ map[t] = Empty
             /\ ~Listed(corridors, t)
             /\ \A i \in 1..Len(rooms) : t \notin Range(rooms[i])

\* C21 as stated: add_doors only ever changes tiles that are Empty: no room
\* tile and no Corridor tile carved by add_maze is overwritten with Door, and
\* no coordinate is stamped Door or appended to Level.corridors more than
\* once.
C21_DoorsOnEmptyOnce == [][DoorsOnEmptyOnce]_vars

DoorsOnEmptyOnceUnlessEmptyValue == room_identifier # Empty => DoorsOnEmptyOnce

\* C21 as amended: when the room tile value is not Empty, add_doors only
\* ever changes tiles that are Empty: no room tile and no Corridor tile
\* carved by add_maze is overwritten with Door, and no coordinate is stamped
\* Door or appended to Level.corridors more than once.
C21_DoorsOnEmptyOnceUnlessEmptyValue ==
  [][DoorsOnEmptyOnceUnlessEmptyValue]_vars

\* add_doors has returned from a map with two Floor rooms and two doors,
\* each pushed to the first corridor list once
C21_Witness ==
  /\ AfterAddDoors
  /\ room_identifier = Floor
  /\ Len(rooms) = 2
  /\ Cardinality({t \in DOMAIN map : map[t] = Door}) = 2
  /\ Cardinality({k \in 1..Len(corridors[1]) : map[corridors[1][k]] = Door}) = 2

\* every two tiles left on the map after this step that a path of cardinally
\* adjacent non-Empty tiles joined before it are joined by such a path after
\* it
StaysConnected ==
  LET before == NonEmptyTiles(map)
      after == NonEmptyTiles(map')
  IN  \A s \in after :
        (Flood(before, {s}) \cap after) \subseteq Flood(after, {s})

\* every step taken in one of these three states is a call of
\* remove_dead_ends
PrunerCallKeepsLevel ==
  pc \in {"remove_dead_ends", "done", "pruned_again"} =>
    /\ StaysConnected
    /\ rooms' = rooms
    /\ \A t \in DOMAIN map :
         map'[t] # map[t] =>
           /\ map'[t] = Empty
           /\ Listed(corridors, t)
           /\ map[t] # Floor

\* C22: a pass of remove_dead_ends never disconnects the level and never
\* touches rooms: two non-Empty tiles that remain after the pass and were
\* joined by a path of cardinally adjacent non-Empty tiles before it are
\* still joined after it, Level.rooms and the Floor tiles stay as they are,
\* and only coordinates listed in Level.corridors are reset to Empty.
C22_PrunerKeepsLevel == [][PrunerCallKeepsLevel]_vars

\* a pass has removed several tiles of a level with two Floor rooms and two
\* doors, and has left corridor tiles next to the rooms
C22_Witness ==
  /\ pc \in {"remove_dead_ends", "done"}
  /\ removed >= 2
  /\ room_identifier = Floor
  /\ Len(rooms) = 2
  /\ Cardinality({t \in DOMAIN map : map[t] = Door}) = 2
  /\ \E t \in DOMAIN map : map[t] = Corridor

\* how often the coordinate t is listed in Level.corridors, over all lists
RECURSIVE TimesListed(_, _)
TimesListed(cors, t) ==
  IF cors = <<>> THEN 0
  ELSE Occurrences(Head(cors), t) + TimesListed(Tail(cors), t)

\* the region lists and the map agree
ListsAgreeWithMap ==
  \A t \in DOMAIN map :
    /\ map[t] \in {Corridor, Door} <=> TimesListed(corridors, t) >= 1
    /\ TimesListed(corridors, t) <= 1
    /\ ~(TimesListed(corridors, t) >= 1
         /\ \E i \in 1..Len(rooms) : t \in Range(rooms[i]))

\* C23: in every Level create_dungeon returns for the room tile value Floor,
\* a tile is Corridor or Door exactly if its coordinate is listed in
\* Level.corridors, every listed coordinate is in one corridor list and there
\* once, and no coordinate is in a room list and in a corridor list.
C23_ListsAgreeWithMap ==
  (Returned /\ room_identifier = Floor) => ListsAgreeWithMap

\* a returned Level with two Floor rooms, both doors and a corridor tile
\* listed in the first corridor list, and an odd cell left Empty
C23_Witness ==
  /\ Returned
  /\ room_identifier = Floor
  /\ Len(rooms) = 2
  /\ Cardinality({k \in 1..Len(corridors[1]) : map[corridors[1][k]] = Door}) = 2
  /\ \E k \in 1..Len(corridors[1]) : map[corridors[1][k]] = Corridor
  /\ \E t \in DOMAIN map : t[1] % 2 = 1 /\ t[2] % 2 = 1 /\ map[t] = Empty

====
